---- MODULE Spec2Model ----
(***************************************************************************)
(* State-machine model of the Tetris game engine of src/src/main.ts: the   *)
(* grid of settled cells, the falling brick, the preview queue, the        *)
(* row-clear animation counter and the reducer handleActions.              *)
(***************************************************************************)
EXTENDS Integers, Sequences, FiniteSets

(* ---------------------------------------------------------------------- *)
(* Program constants (src/src/main.ts:5-14)                                *)
(* ---------------------------------------------------------------------- *)
GRID_WIDTH == 10
GRID_HEIGHT == 20
N_BRICK_TYPES == 7
QUEUE_SIZE == 4
ROW_ANIMATION_FRAMES == 6
POINTS_PER_ROW == 100

\* Stands for -Infinity: a position no spawned brick ever has.  The code only
\* ever compares it for equality (isUnspawned) and never computes with it.
UNSPAWNED_POS == -1000

\* The value of completedRowAnimationFrame when no animation runs.
null == -1

\* A grid cell that holds no brick, and what JavaScript yields for an index a
\* row does not have.
emptyCell == -1
undefined == -2

(* ---------------------------------------------------------------------- *)
(* Bounds of the model                                                     *)
(* ---------------------------------------------------------------------- *)
\* Bricks that are spawned and locked into the grid in one behaviour.
MaxLocks == 1
\* randomBrickType() fills the queue with types 0..MaxQueueType.
MaxQueueType == 0
\* Columns modelled on either side of the grid (JavaScript rows accept writes
\* at any index).
ColMargin == 2
\* Bottom rows already holding bricks in the mid-game states SpecMid starts in.
MidRows == 2
RowsDepth == 4
WellDepth == 8

(* ---------------------------------------------------------------------- *)
(* Brick types, shapes and orientations                                    *)
(* ---------------------------------------------------------------------- *)
I == 0
L == 1
J == 2
O == 3
S == 4
Z == 5
T == 6
BrickTypes == 0..(N_BRICK_TYPES - 1)

UNSTARTED == 0
IN_PROGRESS == 1
OVER == 2

SPAWN == 0
RIGHT == 1
TWO == 2
LEFT == 3
Orientations == 0..3

\* shape[y + 1][x + 1] is the bit of row y, column x of the code's shape[y][x].
brickTypeToShapeMap(type) ==
    CASE type = I -> << <<0, 0, 0, 0>>,
                        <<1, 1, 1, 1>>,
                        <<0, 0, 0, 0>>,
                        <<0, 0, 0, 0>> >>
      [] type = L -> << <<1, 0, 0>>,
                        <<1, 1, 1>>,
                        <<0, 0, 0>> >>
      [] type = J -> << <<0, 0, 1>>,
                        <<1, 1, 1>>,
                        <<0, 0, 0>> >>
      [] type = O -> << <<1, 1>>,
                        <<1, 1>> >>
      [] type = S -> << <<0, 1, 1>>,
                        <<1, 1, 0>>,
                        <<0, 0, 0>> >>
      [] type = Z -> << <<1, 1, 0>>,
                        <<0, 1, 1>>,
                        <<0, 0, 0>> >>
      [] type = T -> << <<0, 1, 0>>,
                        <<1, 1, 1>>,
                        <<0, 0, 0>> >>

shapeSize(b) == Len(b)

Bit(shape, x, y) == shape[y + 1][x + 1]

isEmptyBitGridRow(b, y) == \A x \in 0..(shapeSize(b) - 1) : Bit(b, x, y) = 0

\* Mutant of incrementOrientation: one step the other way round.
incrementOrientation_back(o) == (o + 3) % 4

incrementOrientation(o) == (o + 1) % 4

jlstzOrientationToWallKickMap(o) ==
    CASE o = SPAWN -> << <<0, 0>>, <<-1, 0>>, <<-1, 1>>, <<0, -2>>, <<-1, -2>> >>
      [] o = RIGHT -> << <<0, 0>>, <<1, 0>>, <<1, -1>>, <<0, 2>>, <<1, 2>> >>
      [] o = TWO   -> << <<0, 0>>, <<1, 0>>, <<1, 1>>, <<0, -2>>, <<1, -2>> >>
      [] o = LEFT  -> << <<0, 0>>, <<-1, 0>>, <<-1, -1>>, <<0, 2>>, <<-1, 2>> >>

iOrientationToWallKickMap(o) ==
    CASE o = SPAWN -> << <<0, 0>>, <<-2, 0>>, <<1, 0>>, <<-2, -1>>, <<1, 2>> >>
      [] o = RIGHT -> << <<0, 0>>, <<-1, 0>>, <<2, 0>>, <<-1, 2>>, <<2, -1>> >>
      [] o = TWO   -> << <<0, 0>>, <<2, 0>>, <<-1, 0>>, <<2, 1>>, <<-1, -2>> >>
      [] o = LEFT  -> << <<0, 0>>, <<1, 0>>, <<-2, 0>>, <<1, -2>>, <<-2, 1>> >>

\* One pass of the loop body of rotateShape: cur[x][size-1-y] = prev[y][x].
rotateOnce(prev) ==
    LET size == shapeSize(prev)
    IN  [r \in 1..size |-> [c \in 1..size |-> prev[size + 1 - c][r]]]

\* for (let i = 0; i < orientation; i++): each pass builds cur from prev.
RECURSIVE rotateShape(_, _)
rotateShape(prev, orientation) ==
    IF orientation <= 0 THEN prev
    ELSE CHOOSE result \in {rotateShape(cur, orientation - 1) :
                               cur \in {rotateOnce(prev)}} : TRUE

(* ---------------------------------------------------------------------- *)
(* The grid of settled bricks                                              *)
(* ---------------------------------------------------------------------- *)
\* A row is a JavaScript array: indices 0..GRID_WIDTH-1 exist from creation,
\* any other index is undefined until something is written there.
ExtCols == (0 - ColMargin)..(GRID_WIDTH - 1 + ColMargin)
Cols == 0..(GRID_WIDTH - 1)
Rows == 0..(GRID_HEIGHT - 1)

\* grid[y] of the code is grid[y + 1] here.
RowAt(grid, y) == grid[y + 1]

CellAt(grid, x, y) ==
    IF x \in ExtCols THEN RowAt(grid, y)[x] ELSE undefined

isEmptyCell(grid, x, y) ==
    \/ y \notin 0..(Len(grid) - 1)
    \/ CellAt(grid, x, y) = emptyCell

collision(grid, shape, x0, y0) ==
    \E sh \in {shape} :
        \E y \in 0..(shapeSize(sh) - 1), x \in 0..(shapeSize(sh) - 1) :
            /\ Bit(sh, x, y) = 1
            /\ ~isEmptyCell(grid, x0 + x, y0 + y)

emptyRow(width) ==
    [c \in ExtCols |-> IF c \in 0..(width - 1) THEN emptyCell ELSE undefined]

emptyCells(width, height) == [y \in 1..height |-> emptyRow(width)]

\* row.length of the JavaScript array.
RowLength(row) ==
    LET beyond == {c \in ExtCols : c >= GRID_WIDTH /\ row[c] # undefined}
    IN  IF beyond = {} THEN GRID_WIDTH
        ELSE 1 + (CHOOSE c \in beyond : \A d \in beyond : d <= c)

\* Array.prototype.every visits the indices 0..length-1 that hold a value.
isCompleteRow(row) ==
    \A c \in ExtCols : (c >= 0 /\ row[c] # undefined) => row[c] # emptyCell

hasCompletedRow(grid) == \E i \in 1..Len(grid) : isCompleteRow(grid[i])

RECURSIVE remainingRows(_)
remainingRows(grid) ==
    IF grid = <<>> THEN <<>>
    ELSE IF isCompleteRow(Head(grid)) THEN remainingRows(Tail(grid))
         ELSE <<Head(grid)>> \o remainingRows(Tail(grid))

\* Mutant of removeCompletedRowsFromGrid: only the topmost complete row is
\* dropped.
RECURSIVE remainingRows_firstOnly(_)
remainingRows_firstOnly(grid) ==
    IF grid = <<>> THEN <<>>
    ELSE IF isCompleteRow(Head(grid)) THEN Tail(grid)
         ELSE <<Head(grid)>> \o remainingRows_firstOnly(Tail(grid))

removeCompletedRowsFromGrid_firstOnly(grid) ==
    LET remaining == remainingRows_firstOnly(grid)
        pad == GRID_HEIGHT - Len(remaining)
    IN  [i \in 1..(IF pad > 0 THEN pad ELSE 0) |-> emptyRow(GRID_WIDTH)]
            \o remaining

\* Mutant of removeCompletedRowsFromGrid: the empty rows are added below the
\* remaining rows.
removeCompletedRowsFromGrid_padBottom(grid) ==
    LET remaining == remainingRows(grid)
        pad == GRID_HEIGHT - Len(remaining)
    IN  remaining
            \o [i \in 1..(IF pad > 0 THEN pad ELSE 0) |-> emptyRow(GRID_WIDTH)]

removeCompletedRowsFromGrid(grid) ==
    LET remaining == remainingRows(grid)
        pad == GRID_HEIGHT - Len(remaining)
    IN  [i \in 1..(IF pad > 0 THEN pad ELSE 0) |-> emptyRow(GRID_WIDTH)]
            \o remaining

(* ---------------------------------------------------------------------- *)
(* The falling brick (class FallingBrick)                                  *)
(* ---------------------------------------------------------------------- *)
\* Mutant of newFallingBrick: the brick is created on the board.
newFallingBrick_spawned(type) ==
    [type |-> type, x |-> 0, y |-> 0, orientation |-> SPAWN]

newFallingBrick(type) ==
    [type |-> type, x |-> UNSPAWNED_POS, y |-> UNSPAWNED_POS,
     orientation |-> SPAWN]

isUnspawned(fb) == fb.x = UNSPAWNED_POS

shape(fb) ==
    IF isUnspawned(fb) \/ fb.type = O THEN brickTypeToShapeMap(fb.type)
    ELSE rotateShape(brickTypeToShapeMap(fb.type), fb.orientation)

\* Mutant of spawn: the brick appears in the left corner.
spawn_left(fb) ==
    [fb EXCEPT !.x = 0, !.y = 0 - shapeSize(shape(fb))]

\* Math.floor((GRID_WIDTH - size) / 2); the dividend is never negative.
spawn(fb) ==
    LET size == shapeSize(shape(fb))
    IN  [fb EXCEPT !.x = (GRID_WIDTH - size) \div 2, !.y = 0 - size]

isTouchingFloor(fb) ==
    \E sh \in {shape(fb)} :
        \E y \in 0..(shapeSize(sh) - 1) :
            /\ ~isEmptyBitGridRow(sh, y)
            /\ fb.y + y + 1 = GRID_HEIGHT

isOnTopOfBricks(fb, grid) == collision(grid, shape(fb), fb.x, fb.y + 1)

canFall(fb, grid) == ~isTouchingFloor(fb) /\ ~isOnTopOfBricks(fb, grid)

\* tickGravity returns true (landed) exactly when canFall is false; otherwise
\* it moves the brick one row down.
tickGravity(fb, grid) ==
    IF ~canFall(fb, grid) THEN fb ELSE [fb EXCEPT !.y = fb.y + 1]

brickGameOver(fb, grid) == isOnTopOfBricks(fb, grid) /\ fb.y < 0

\* Mutant of wallKicks: the table row of the orientation rotated to.
wallKicks_byNext(fb) ==
    IF fb.type = I
    THEN iOrientationToWallKickMap(incrementOrientation(fb.orientation))
    ELSE jlstzOrientationToWallKickMap(incrementOrientation(fb.orientation))

wallKicks(fb) ==
    IF fb.type = I THEN iOrientationToWallKickMap(fb.orientation)
    ELSE jlstzOrientationToWallKickMap(fb.orientation)

\* let nextShape = rotateShape(this.shape(), nextOrientation): the shape
\* rotate() tests at each kick offset.
nextShape(fb) ==
    rotateShape(shape(fb), incrementOrientation(fb.orientation))

rotate(fb, grid) ==
    IF isUnspawned(fb) \/ fb.type = O THEN fb
    ELSE LET nextOrientation == incrementOrientation(fb.orientation)
             kicks == wallKicks(fb)
             free == {i \in 1..Len(kicks) :
                         ~collision(grid, nextShape(fb),
                                    fb.x + kicks[i][1], fb.y + kicks[i][2])}
         IN  IF free = {} THEN fb
             ELSE LET i == CHOOSE j \in free : \A k \in free : j <= k
                  IN  [fb EXCEPT !.orientation = nextOrientation,
                                 !.x = fb.x + kicks[i][1],
                                 !.y = fb.y + kicks[i][2]]

isAgainstWall(fb, left) ==
    LET bound == IF left THEN 0 ELSE GRID_WIDTH - 1
    IN  \E sh \in {shape(fb)} :
            \E y \in 0..(shapeSize(sh) - 1), x \in 0..(shapeSize(sh) - 1) :
                Bit(sh, x, y) = 1 /\ fb.x + x = bound

canMove(fb, grid, left) ==
    /\ ~collision(grid, shape(fb), fb.x + (IF left THEN -1 ELSE 1), fb.y)
    /\ ~isAgainstWall(fb, left)

moveLeft(fb, grid) ==
    IF isUnspawned(fb) \/ ~canMove(fb, grid, TRUE) THEN fb
    ELSE [fb EXCEPT !.x = fb.x - 1]

moveRight(fb, grid) ==
    IF isUnspawned(fb) \/ ~canMove(fb, grid, FALSE) THEN fb
    ELSE [fb EXCEPT !.x = fb.x + 1]

\* Every occupied cell of the brick lies below the last grid row.  From there
\* on neither isTouchingFloor nor collision can ever hold again.
isBelowFloor(fb) ==
    \A sh \in {shape(fb)} :
        \A y \in 0..(shapeSize(sh) - 1) :
            ~isEmptyBitGridRow(sh, y) => fb.y + y >= GRID_HEIGHT

\* while (this.canFall(grid)) this.y++, followed until the loop stops or the
\* brick is wholly below the floor (where the loop never stops).
RECURSIVE fallLoop(_, _)
fallLoop(fb, grid) ==
    IF ~canFall(fb, grid) \/ isBelowFloor(fb) THEN fb
    ELSE fallLoop([fb EXCEPT !.y = @ + 1], grid)

fastFallDiverges(fb, grid) ==
    /\ ~isUnspawned(fb)
    /\ \E stopped \in {fallLoop(fb, grid)} : canFall(stopped, grid)

\* Mutant of fastFall: the brick is put back at its spawn position.
fastFall_respawn(fb, grid) ==
    IF isUnspawned(fb) THEN fb ELSE spawn(fb)

fastFall(fb, grid) ==
    IF isUnspawned(fb) THEN fb ELSE fallLoop(fb, grid)

(* ---------------------------------------------------------------------- *)
(* Game state                                                              *)
(* ---------------------------------------------------------------------- *)
\* The occupied cells of the brick as <<column, row>> grid coordinates.
brickCells(fb) ==
    UNION {{<<fb.x + p[1], fb.y + p[2]>> :
               p \in {q \in (0..(shapeSize(sh) - 1)) \X (0..(shapeSize(sh) - 1)) :
                         Bit(sh, q[1], q[2]) = 1}} : sh \in {shape(fb)}}

\* writeFallingBrickToGrid visits the shape's rows top down; state.bricks[row]
\* is undefined for a row outside the grid, and the assignment then throws.
writeThrowRows(fb, grid) ==
    {c[2] : c \in {d \in brickCells(fb) : d[2] \notin 0..(Len(grid) - 1)}}

writeThrows(fb, grid) == writeThrowRows(fb, grid) # {}

\* The grid after writeFallingBrickToGrid returned or threw: the cells of the
\* rows visited before the throwing row are written.
writeFallingBrickToGrid(fb, grid) ==
    LET bad == writeThrowRows(fb, grid)
        stop == IF bad = {} THEN fb.y + shapeSize(shape(fb))
                ELSE CHOOSE r \in bad : \A q \in bad : r <= q
        written(cells, type) ==
            [i \in 1..Len(grid) |->
                [c \in ExtCols |->
                    IF <<c, i - 1>> \in cells THEN type ELSE grid[i][c]]]
    IN  CHOOSE g \in {written(cells, type) :
                         cells \in {{c \in brickCells(fb) : c[2] < stop}},
                         type \in {fb.type}} : TRUE

isRowAnimating(frame) == frame # null

nextFrame(x) == IF x = ROW_ANIMATION_FRAMES THEN null ELSE x + 1

tickCompletedRowAnimation(frame) ==
    IF isRowAnimating(frame) THEN nextFrame(frame) ELSE 0

RECURSIVE rowPoints(_)
rowPoints(grid) ==
    IF grid = <<>> THEN 0
    ELSE (IF isCompleteRow(Head(grid)) THEN POINTS_PER_ROW ELSE 0)
             + rowPoints(Tail(grid))

\* Mutant of awardPoints: a flat award however many rows are complete.
awardPoints_flat(sc, grid) ==
    sc + (IF hasCompletedRow(grid) THEN POINTS_PER_ROW ELSE 0)

awardPoints(sc, grid) == sc + rowPoints(grid)

\* Mutant of dequeueQueue: the front is dropped and nothing is appended.
dequeueQueue_noAppend(q, r) ==
    SubSeq(q, 2, IF Len(q) < QUEUE_SIZE THEN Len(q) ELSE QUEUE_SIZE)

\* Mutant of dequeueQueue: the new type is put at the front.
dequeueQueue_prepend(q, r) ==
    <<r>> \o SubSeq(q, 2, IF Len(q) < QUEUE_SIZE THEN Len(q) ELSE QUEUE_SIZE)

\* queue: [...state.queue.slice(1, QUEUE_SIZE), randomBrickType()]
dequeueQueue(q, r) == SubSeq(q, 2, IF Len(q) < QUEUE_SIZE THEN Len(q) ELSE QUEUE_SIZE)
                          \o <<r>>

VARIABLES
    phase,                      \* GamePhase
    bricks,                     \* the grid of settled cells
    score,
    fallingBrick,               \* [type, x, y, orientation]
    queue,                      \* the preview queue
    completedRowAnimationFrame, \* a frame number, or null
    run,                        \* "ok"; "thrown" once the reducer threw;
                                \* "hung" once the reducer entered a loop that
                                \* never ends; "renderHung" once render did
    locks,                      \* bricks locked into the grid so far
    startedFrom                 \* what the last action replaced, when that
                                \* action was START_GAME

state == <<phase, bricks, score, fallingBrick, queue, completedRowAnimationFrame>>
vars == <<phase, bricks, score, fallingBrick, queue, completedRowAnimationFrame,
          run, locks, startedFrom>>

\* The values randomBrickType() is followed for.
QueueTypes == 0..MaxQueueType

\* Mutant of initialState: the arguments of emptyCells swapped.
initialState_swapped(t, q) ==
    [phase |-> UNSTARTED,
     bricks |-> emptyCells(GRID_HEIGHT, GRID_WIDTH),
     score |-> 0,
     fallingBrick |-> newFallingBrick(t),
     queue |-> q,
     completedRowAnimationFrame |-> null]

\* initialState(), with the five values randomBrickType() returned: t for the
\* falling brick and q for the queue.
initialState(t, q) ==
    [phase |-> UNSTARTED,
     bricks |-> emptyCells(GRID_WIDTH, GRID_HEIGHT),
     score |-> 0,
     fallingBrick |-> newFallingBrick(t),
     queue |-> q,
     completedRowAnimationFrame |-> null]

\* Mutant of gameOver: the wrong member of GamePhase.
gameOver_unstarted(ph) == UNSTARTED

\* gameOver(state): {...state, phase: GamePhase.OVER}
gameOver(ph) == OVER

\* tap(render): in IN_PROGRESS render calls renderProjection, which runs
\* fastFall on a copy of the falling brick; render does not return when that
\* loop does not.
renderHangs(ph, fb, grid) == ph = IN_PROGRESS /\ fastFallDiverges(fb, grid)

\* What becomes of the run once the reducer has returned the state and render
\* is called with it.
rendered(ph, fb, grid) == IF renderHangs(ph, fb, grid) THEN "renderHung" ELSE "ok"

\* The last action was not START_GAME.
NoStart == [acted |-> FALSE, phase |-> UNSTARTED, score |-> 0, frame |-> null]

\* The phase, score and animation counter of the state START_GAME is handled
\* in, all of which {...initialState(), phase} replaces.
startOf(ph, sc, frame) == [acted |-> TRUE, phase |-> ph, score |-> sc, frame |-> frame]

\* scan(handleActions, initialState())
Init ==
    /\ \E t \in BrickTypes, q \in [1..QUEUE_SIZE -> QueueTypes] :
          LET s == initialState(t, q)
          IN  /\ phase = s.phase
              /\ bricks = s.bricks
              /\ score = s.score
              /\ fallingBrick = s.fallingBrick
              /\ queue = s.queue
              /\ completedRowAnimationFrame = s.completedRowAnimationFrame
    /\ run = "ok"
    /\ locks = 0
    /\ startedFrom = NoStart

\* Mutant of StartGame: the score and the row-clear animation are carried
\* over into the new game.
StartGame_carryOver ==
    /\ run = "ok"
    /\ \E t \in BrickTypes, q \in [1..QUEUE_SIZE -> QueueTypes] :
          LET s == [initialState(t, q) EXCEPT !.phase = IN_PROGRESS]
          IN  /\ phase' = s.phase
              /\ fallingBrick' = s.fallingBrick
              /\ queue' = s.queue
              /\ bricks' = s.bricks
    /\ UNCHANGED <<score, completedRowAnimationFrame>>
    /\ locks' = 0
    /\ startedFrom' = startOf(phase, score, completedRowAnimationFrame)
    /\ run' = rendered(phase', fallingBrick', bricks')

\* case Action.START_GAME: {...initialState(), phase: GamePhase.IN_PROGRESS}
StartGame ==
    /\ run = "ok"
    /\ \E t \in BrickTypes, q \in [1..QUEUE_SIZE -> QueueTypes] :
          LET s == [initialState(t, q) EXCEPT !.phase = IN_PROGRESS]
          IN  /\ phase' = s.phase
              /\ score' = s.score
              /\ fallingBrick' = s.fallingBrick
              /\ queue' = s.queue
              /\ completedRowAnimationFrame' = s.completedRowAnimationFrame
              /\ bricks' = s.bricks
    /\ locks' = 0
    /\ startedFrom' = startOf(phase, score, completedRowAnimationFrame)
    /\ run' = rendered(phase', fallingBrick', bricks')

\* tickClock, the branch taken while a row-clear animation runs.
TickAnimation ==
    /\ phase = IN_PROGRESS
    /\ isRowAnimating(completedRowAnimationFrame)
    /\ completedRowAnimationFrame' =
           tickCompletedRowAnimation(completedRowAnimationFrame)
    /\ bricks' = IF isRowAnimating(completedRowAnimationFrame')
                 THEN bricks ELSE removeCompletedRowsFromGrid(bricks)
    /\ run' = rendered(phase, fallingBrick, bricks')
    /\ startedFrom' = NoStart
    /\ UNCHANGED <<phase, score, fallingBrick, queue, locks>>

\* if (state.fallingBrick.isUnspawned()) state.fallingBrick.spawn();
tickBrick(fb) == IF isUnspawned(fb) THEN spawn(fb) ELSE fb

\* tickClock, the gravity branch.
TickGravity ==
    /\ phase = IN_PROGRESS
    /\ ~isRowAnimating(completedRowAnimationFrame)
    /\ isUnspawned(fallingBrick) => locks < MaxLocks
    /\ startedFrom' = NoStart
    /\ LET fb == tickBrick(fallingBrick)
       IN  IF canFall(fb, bricks)
           THEN /\ fallingBrick' = tickGravity(fb, bricks)
                /\ run' = rendered(phase, fallingBrick', bricks)
                /\ UNCHANGED <<phase, bricks, score, queue,
                               completedRowAnimationFrame, locks>>
           ELSE IF brickGameOver(fb, bricks)
           THEN /\ phase' = gameOver(phase)
                /\ fallingBrick' = fb
                /\ run' = rendered(phase', fallingBrick', bricks)
                /\ UNCHANGED <<bricks, score, queue,
                               completedRowAnimationFrame, locks>>
           ELSE IF writeThrows(fb, bricks)
           THEN /\ bricks' = writeFallingBrickToGrid(fb, bricks)
                /\ fallingBrick' = fb
                /\ run' = "thrown"
                /\ locks' = locks + 1
                /\ UNCHANGED <<phase, score, queue,
                               completedRowAnimationFrame>>
           ELSE /\ locks' = locks + 1
                /\ bricks' = writeFallingBrickToGrid(fb, bricks)
                /\ fallingBrick' = newFallingBrick(queue[1])
                /\ \E r \in QueueTypes : queue' = dequeueQueue(queue, r)
                /\ IF hasCompletedRow(bricks')
                   THEN /\ completedRowAnimationFrame' =
                               tickCompletedRowAnimation(completedRowAnimationFrame)
                        /\ score' = awardPoints(score, bricks')
                   ELSE UNCHANGED <<completedRowAnimationFrame, score>>
                /\ run' = rendered(phase, fallingBrick', bricks')
                /\ UNCHANGED phase

\* The model follows a brick only while its cells stay within ColMargin
\* columns of the grid.
withinMargin(fb) ==
    isUnspawned(fb) \/ \A c \in brickCells(fb) : c[1] \in ExtCols

\* case Action.TICK_CLOCK: tickClock(state)
TickClock ==
    /\ run = "ok"
    /\ \/ phase # IN_PROGRESS /\ UNCHANGED vars
       \/ TickAnimation
       \/ TickGravity

\* case Action.LEFT
Left ==
    /\ run = "ok"
    /\ fallingBrick' = moveLeft(fallingBrick, bricks)
    /\ withinMargin(fallingBrick')
    /\ run' = rendered(phase, fallingBrick', bricks)
    /\ startedFrom' = NoStart
    /\ UNCHANGED <<phase, bricks, score, queue, completedRowAnimationFrame,
                   locks>>

\* case Action.RIGHT
Right ==
    /\ run = "ok"
    /\ fallingBrick' = moveRight(fallingBrick, bricks)
    /\ withinMargin(fallingBrick')
    /\ run' = rendered(phase, fallingBrick', bricks)
    /\ startedFrom' = NoStart
    /\ UNCHANGED <<phase, bricks, score, queue, completedRowAnimationFrame,
                   locks>>

\* case Action.UP
Up ==
    /\ run = "ok"
    /\ fallingBrick' = rotate(fallingBrick, bricks)
    /\ withinMargin(fallingBrick')
    /\ run' = rendered(phase, fallingBrick', bricks)
    /\ startedFrom' = NoStart
    /\ UNCHANGED <<phase, bricks, score, queue, completedRowAnimationFrame,
                   locks>>

\* case Action.DOWN
Down ==
    /\ run = "ok"
    /\ IF fastFallDiverges(fallingBrick, bricks)
       THEN run' = "hung" /\ UNCHANGED fallingBrick
       ELSE /\ fallingBrick' = fastFall(fallingBrick, bricks)
            /\ run' = rendered(phase, fallingBrick', bricks)
    /\ startedFrom' = NoStart
    /\ UNCHANGED <<phase, bricks, score, queue, completedRowAnimationFrame,
                   locks>>

Next == StartGame \/ TickClock \/ Left \/ Right \/ Up \/ Down

Spec == Init /\ [][Next]_vars


(* ---------------------------------------------------------------------- *)
(* A game in progress.  After 2k I bricks were dropped flat at x = 0 and   *)
(* x = 4 (START_GAME, then TICK_CLOCK, LEFT or RIGHT, DOWN, TICK_CLOCK for *)
(* each), the bottom k rows hold I cells in columns 0..7, no row is        *)
(* complete, the score is 0 and the next brick is dequeued but unspawned.  *)
(* ---------------------------------------------------------------------- *)
midRow ==
    [c \in ExtCols |-> IF c \in 0..7 THEN I ELSE emptyRow(GRID_WIDTH)[c]]

midGrid(k) ==
    [y \in 1..GRID_HEIGHT |->
        IF y > GRID_HEIGHT - k THEN midRow ELSE emptyRow(GRID_WIDTH)]

InitMid ==
    /\ phase = IN_PROGRESS
    /\ bricks \in {midGrid(k) : k \in 1..MidRows}
    /\ score = 0
    /\ fallingBrick \in {newFallingBrick(t) : t \in BrickTypes}
    /\ queue \in [1..QUEUE_SIZE -> QueueTypes]
    /\ completedRowAnimationFrame = null
    /\ run = "ok"
    /\ locks = 0
    /\ startedFrom = NoStart

SpecMid == InitMid /\ [][Next]_vars

\* The program from its first state and from a game in progress: START_GAME
\* is handled before a game, after a game is over, and during a game with rows
\* completed, points scored and the row-clear animation running.
InitStart == Init \/ InitMid

SpecStart == InitStart /\ [][Next]_vars

\* clock$ = timer(0, 1000 / FPS) keeps emitting TICK_CLOCK: as long as the
\* program runs and a tick would change the state, a tick is eventually
\* handled.
SpecLive == InitMid /\ [][Next]_vars /\ WF_vars(TickClock)

(* ---------------------------------------------------------------------- *)
(* A game just started, with preview queues of four different types: the   *)
(* state START_GAME returns when randomBrickType() yields t and then the    *)
(* members of q.                                                            *)
(* ---------------------------------------------------------------------- *)
PreviewQueues == {<<L, J, O, S>>, <<T, Z, S, I>>}

InitQueue ==
    /\ \E t \in BrickTypes, q \in PreviewQueues :
          LET s == [initialState(t, q) EXCEPT !.phase = IN_PROGRESS]
          IN  /\ phase = s.phase
              /\ bricks = s.bricks
              /\ score = s.score
              /\ fallingBrick = s.fallingBrick
              /\ queue = s.queue
              /\ completedRowAnimationFrame = s.completedRowAnimationFrame
    /\ run = "ok"
    /\ locks = 0
    /\ startedFrom = NoStart

SpecQueue == InitQueue /\ [][Next]_vars

(* ---------------------------------------------------------------------- *)
(* A game in progress whose bottom WellDepth rows are filled except for a  *)
(* well one column wide, the column a vertical I takes when it is rotated  *)
(* at its spawn position.  No row is complete and the next brick is        *)
(* dequeued but unspawned.                                                 *)
(* ---------------------------------------------------------------------- *)
wellRow ==
    [c \in ExtCols |->
        IF c \in Cols \ {5} THEN J ELSE emptyRow(GRID_WIDTH)[c]]

wellGrid ==
    [y \in 1..GRID_HEIGHT |->
        IF y > GRID_HEIGHT - WellDepth THEN wellRow ELSE emptyRow(GRID_WIDTH)]

InitWell ==
    /\ phase = IN_PROGRESS
    /\ bricks = wellGrid
    /\ score = 0
    /\ fallingBrick \in {newFallingBrick(t) : t \in BrickTypes}
    /\ queue \in [1..QUEUE_SIZE -> QueueTypes]
    /\ completedRowAnimationFrame = null
    /\ run = "ok"
    /\ locks = 0
    /\ startedFrom = NoStart

SpecWell == InitWell /\ [][Next]_vars

(* ---------------------------------------------------------------------- *)
(* The last tick of a row-clear animation, for grids whose bottom          *)
(* RowsDepth rows are each empty, partly filled or complete.  The counter  *)
(* stands at ROW_ANIMATION_FRAMES when a row is complete, and the points   *)
(* for the complete rows were awarded at the landing.                      *)
(* ---------------------------------------------------------------------- *)
rowFilled(type, cols) ==
    [c \in ExtCols |-> IF c \in cols THEN type ELSE emptyRow(GRID_WIDTH)[c]]

RowPatterns ==
    {emptyRow(GRID_WIDTH), rowFilled(I, Cols), rowFilled(T, Cols),
     rowFilled(I, 0..7), rowFilled(L, 1..9)}

RowGrids ==
    {[y \in 1..GRID_HEIGHT |->
         IF y > GRID_HEIGHT - RowsDepth THEN f[y - (GRID_HEIGHT - RowsDepth)]
         ELSE emptyRow(GRID_WIDTH)] : f \in [1..RowsDepth -> RowPatterns]}

InitRows ==
    /\ phase = IN_PROGRESS
    /\ bricks \in RowGrids
    /\ score = awardPoints(0, bricks)
    /\ fallingBrick = newFallingBrick(I)
    /\ queue = [i \in 1..QUEUE_SIZE |-> I]
    /\ completedRowAnimationFrame =
           (IF hasCompletedRow(bricks) THEN ROW_ANIMATION_FRAMES ELSE null)
    /\ run = "ok"
    /\ locks = MaxLocks
    /\ startedFrom = NoStart

SpecRows == InitRows /\ [][TickAnimation]_vars

(* ---------------------------------------------------------------------- *)
(* Sanity of the model's own bounds                                        *)
(* ---------------------------------------------------------------------- *)
BrickWithinMargin ==
    ~isUnspawned(fallingBrick) =>
        \A c \in brickCells(fallingBrick) : c[1] \in ExtCols

\* While a game is in progress and the program runs, the last render has
\* returned: the drop projection of the brick exists and the brick is not
\* below the floor.
RenderedBrickAboveFloor ==
    (run = "ok" /\ phase = IN_PROGRESS /\ ~isUnspawned(fallingBrick))
        => /\ ~fastFallDiverges(fallingBrick, bricks)
           /\ fallingBrick.y < GRID_HEIGHT

(* ---------------------------------------------------------------------- *)
(* Vocabulary of the claims                                                *)
(* ---------------------------------------------------------------------- *)
\* The brick tickClock works on in the current state (spawned first if needed).
curBrick == tickBrick(fallingBrick)

\* A TICK_CLOCK in the current state takes the gravity branch and the brick lands.
landsNow ==
    /\ phase = IN_PROGRESS
    /\ ~isRowAnimating(completedRowAnimationFrame)
    /\ ~canFall(curBrick, bricks)

\* ... and it is not game over, so tickClock goes on to writeFallingBrickToGrid.
locksNow == landsNow /\ ~brickGameOver(curBrick, bricks)

\* A cell of the grid proper that holds a brick type.
isSettled(grid, x, y) ==
    /\ x \in Cols
    /\ y \in 0..(Len(grid) - 1)
    /\ RowAt(grid, y)[x] \in BrickTypes

\* Some occupied cell of the brick has a settled cell directly below it.
restsOnSettled(fb, grid) ==
    \E c \in brickCells(fb) : isSettled(grid, c[1], c[2] + 1)

occupiedAboveRow0(fb) == \E c \in brickCells(fb) : c[2] < 0

completeRowCount(grid) ==
    Cardinality({i \in 1..Len(grid) : isCompleteRow(grid[i])})

isAllEmptyGrid(grid) ==
    /\ Len(grid) = GRID_HEIGHT
    /\ \A i \in 1..Len(grid) :
          /\ RowLength(grid[i]) = GRID_WIDTH
          /\ \A c \in ExtCols :
                grid[i][c] = (IF c \in Cols THEN emptyCell ELSE undefined)

(* ---------------------------------------------------------------------- *)
(* C1: in a state whose phase is not IN_PROGRESS, TICK_CLOCK, LEFT, RIGHT, *)
(* UP and DOWN leave the whole state unchanged.                            *)
(* ---------------------------------------------------------------------- *)
C1_NoOpOutsideInProgress ==
    [][(phase # IN_PROGRESS /\ (TickClock \/ Left \/ Right \/ Up \/ Down))
          => UNCHANGED state]_vars

(* ---------------------------------------------------------------------- *)
(* C2: the reducer is total: every action returns a next state; it never   *)
(* throws (no write to a grid row outside 0..H-1) and never fails to       *)
(* return.                                                                 *)
(* ---------------------------------------------------------------------- *)
C2_ReducerTotal == run \notin {"thrown", "hung"}

(* ---------------------------------------------------------------------- *)
(* C3: a TICK_CLOCK changes the phase from IN_PROGRESS to OVER if and only *)
(* if the brick has landed against settled grid cells while at least one   *)
(* of its occupied cells is above row 0.                                   *)
(* ---------------------------------------------------------------------- *)
C3_GameOverIff ==
    [][(phase = IN_PROGRESS /\ TickClock)
          => ((phase' = OVER) <=>
                 /\ landsNow
                 /\ restsOnSettled(curBrick, bricks)
                 /\ occupiedAboveRow0(curBrick))]_vars

(* ---------------------------------------------------------------------- *)
(* C4: when a landing TICK_CLOCK writes the brick into the grid, every     *)
(* stamped cell lies inside the grid and was EMPTY before; exactly the     *)
(* brick's 4 cells change, to the brick's type; no other cell changes.     *)
(* ---------------------------------------------------------------------- *)
C4_LockNeverOverwrites ==
    [][(locksNow /\ TickClock)
          => /\ Cardinality(brickCells(curBrick)) = 4
             /\ \A c \in brickCells(curBrick) :
                   /\ c[1] \in Cols
                   /\ c[2] \in Rows
                   /\ CellAt(bricks, c[1], c[2]) = emptyCell
             /\ Len(bricks') = Len(bricks)
             /\ \A y \in Rows, x \in ExtCols :
                   CellAt(bricks', x, y) =
                       IF <<x, y>> \in brickCells(curBrick)
                       THEN curBrick.type ELSE CellAt(bricks, x, y)]_vars

(* ---------------------------------------------------------------------- *)
(* C5: in every state the reducer returns, the grid has exactly H rows and *)
(* every row has exactly W cells, each EMPTY or one of the 7 brick types.  *)
(* ---------------------------------------------------------------------- *)
C5_GridShape ==
    run # "thrown" =>
        /\ Len(bricks) = GRID_HEIGHT
        /\ \A i \in 1..Len(bricks) :
              /\ RowLength(bricks[i]) = GRID_WIDTH
              /\ \A c \in Cols : bricks[i][c] \in {emptyCell} \cup BrickTypes

(* ---------------------------------------------------------------------- *)
(* C6: the phase starts UNSTARTED; it changes only UNSTARTED ->            *)
(* IN_PROGRESS and OVER -> IN_PROGRESS, by START_GAME, and IN_PROGRESS ->  *)
(* OVER, by TICK_CLOCK; it never returns to UNSTARTED, and LEFT, RIGHT, UP *)
(* and DOWN never change it.                                               *)
(* ---------------------------------------------------------------------- *)
C6_PhaseMachine ==
    /\ phase = UNSTARTED
    /\ [][/\ (phase' # phase) =>
                \/ phase \in {UNSTARTED, OVER} /\ phase' = IN_PROGRESS /\ StartGame
                \/ phase = IN_PROGRESS /\ phase' = OVER /\ TickClock
          /\ (phase # UNSTARTED) => (phase' # UNSTARTED)
          /\ (phase = OVER /\ phase' # OVER) => StartGame
          /\ (phase' # phase) => ~(Left \/ Right \/ Up \/ Down)]_vars

\* The game ended: IN_PROGRESS -> OVER was taken.
C6_Witness == phase = OVER

(* ---------------------------------------------------------------------- *)
(* C7: START_GAME in any state yields phase IN_PROGRESS, score 0, an       *)
(* all-EMPTY H x W grid, a queue of exactly 4 brick types, an unspawned    *)
(* falling brick with orientation SPAWN and no row-clear animation.        *)
(* ---------------------------------------------------------------------- *)
C7_StartGameFresh ==
    [][StartGame =>
          /\ phase' = IN_PROGRESS
          /\ score' = 0
          /\ isAllEmptyGrid(bricks')
          /\ Len(queue') = 4
          /\ \A i \in 1..Len(queue') : queue'[i] \in BrickTypes
          /\ isUnspawned(fallingBrick')
          /\ fallingBrick'.y = UNSPAWNED_POS
          /\ fallingBrick'.orientation = SPAWN
          /\ fallingBrick'.type \in BrickTypes
          /\ completedRowAnimationFrame' = null]_vars

\* START_GAME was just handled in the middle of a row-clear animation, with
\* points on the score: the game is fresh.
C7_Witness ==
    /\ startedFrom.acted
    /\ startedFrom.phase = IN_PROGRESS
    /\ isRowAnimating(startedFrom.frame)
    /\ startedFrom.score > 0
    /\ phase = IN_PROGRESS
    /\ isUnspawned(fallingBrick)
    /\ isAllEmptyGrid(bricks)
    /\ score = 0
    /\ completedRowAnimationFrame = null

(* ---------------------------------------------------------------------- *)
(* C8: the landing TICK_CLOCK that completes a row sets the animation      *)
(* counter to 0; each of the next 5 TICK_CLOCKs only advances it, and the  *)
(* 6th (the one that finds the counter at 5) clears it and removes the     *)
(* complete rows.                                                          *)
(* ---------------------------------------------------------------------- *)
C8_AnimationSixTicks ==
    [][/\ (locksNow /\ TickClock /\ run' # "thrown" /\ hasCompletedRow(bricks'))
             => completedRowAnimationFrame' = 0
       /\ (phase = IN_PROGRESS /\ isRowAnimating(completedRowAnimationFrame)
              /\ TickClock)
             => IF completedRowAnimationFrame = ROW_ANIMATION_FRAMES - 1
                THEN /\ completedRowAnimationFrame' = null
                     /\ ~hasCompletedRow(bricks')
                ELSE /\ completedRowAnimationFrame' = completedRowAnimationFrame + 1
                     /\ bricks' = bricks]_vars

(* ---------------------------------------------------------------------- *)
(* C9: in every state the reducer returns, completedRowAnimationFrame is   *)
(* present if and only if the grid contains at least one complete row.     *)
(* ---------------------------------------------------------------------- *)
C9_AnimationIffCompleteRow ==
    run # "thrown" =>
        (isRowAnimating(completedRowAnimationFrame) <=> hasCompletedRow(bricks))

\* An animation has run to its end: points were awarded, the counter is
\* absent again and the complete rows are gone.
C9_Witness ==
    /\ run = "ok"
    /\ score > 0
    /\ ~isRowAnimating(completedRowAnimationFrame)
    /\ ~hasCompletedRow(bricks)

(* ---------------------------------------------------------------------- *)
(* C10: the landing TICK_CLOCK that leaves k >= 1 complete rows in the     *)
(* post-write grid adds exactly 100 * k to the score; START_GAME resets    *)
(* the score to 0; every other transition leaves it unchanged; the score   *)
(* is always a non-negative multiple of 100.                               *)
(* ---------------------------------------------------------------------- *)
C10_Scoring ==
    /\ [](score >= 0 /\ score % 100 = 0)
    /\ [][/\ (locksNow /\ run' # "thrown" /\ TickClock)
                => score' = score + 100 * completeRowCount(bricks')
          /\ (score' # 0) => ~StartGame
          /\ (score' # score)
                => (StartGame \/ (locksNow /\ TickClock /\ run' # "thrown"))]_vars

\* One landing completed two rows at once and was paid 200.
C10_Witness ==
    /\ score = 200
    /\ completeRowCount(bricks) = 2
    /\ completedRowAnimationFrame = 0

(* ---------------------------------------------------------------------- *)
(* C11: in every reachable state the preview queue holds exactly 4 brick   *)
(* types, each one of the 7 canonical types.                               *)
(* ---------------------------------------------------------------------- *)
C11_QueueLength ==
    /\ Len(queue) = 4
    /\ \A i \in 1..Len(queue) : queue[i] \in BrickTypes

\* A brick was locked and the next one dequeued from a queue of mixed types.
C11_Witness ==
    /\ run = "ok"
    /\ locks = 1
    /\ isUnspawned(fallingBrick)
    /\ queue[1] # queue[2]

(* ---------------------------------------------------------------------- *)
(* C12: a DOWN in IN_PROGRESS changes at most the falling brick's y, and   *)
(* never decreases it; grid, score, queue, phase, animation counter and    *)
(* the brick's type, x and orientation are unchanged and the brick is      *)
(* still the same falling brick.  The grid and the queue are changed only  *)
(* by a TICK_CLOCK (or replaced by START_GAME).                            *)
(* ---------------------------------------------------------------------- *)
C12_HardDropDoesNotLock ==
    [][/\ (phase = IN_PROGRESS /\ Down /\ run' # "hung")
             => /\ UNCHANGED <<bricks, score, queue, phase,
                               completedRowAnimationFrame>>
                /\ fallingBrick'.type = fallingBrick.type
                /\ fallingBrick'.x = fallingBrick.x
                /\ fallingBrick'.orientation = fallingBrick.orientation
                /\ fallingBrick'.y >= fallingBrick.y
                /\ isUnspawned(fallingBrick') <=> isUnspawned(fallingBrick)
       /\ (bricks' # bricks \/ queue' # queue)
             => (TickClock \/ StartGame)]_vars

\* A brick hard-dropped onto the floor of the empty grid, not yet locked.
C12_Witness ==
    /\ run = "ok"
    /\ phase = IN_PROGRESS
    /\ locks = 0
    /\ ~isUnspawned(fallingBrick)
    /\ fallingBrick.orientation = SPAWN
    /\ isTouchingFloor(fallingBrick)
    /\ isAllEmptyGrid(bricks)

(* ---------------------------------------------------------------------- *)
(* C13: removeCompletedRowsFromGrid, for a grid of H rows of W cells,      *)
(* returns H rows: the non-complete rows of the input in the same order    *)
(* and with the same contents at the bottom, above them one all-EMPTY row  *)
(* per removed complete row, and no complete row; a grid with no complete  *)
(* row is returned unchanged in content.                                   *)
(* ---------------------------------------------------------------------- *)
isNotCompleteRow(row) == ~isCompleteRow(row)

isAllEmptyRow(row) ==
    /\ RowLength(row) = GRID_WIDTH
    /\ \A c \in Cols : row[c] = emptyCell

C13_RemoveCompletedRows ==
    (/\ Len(bricks) = GRID_HEIGHT
     /\ \A i \in 1..Len(bricks) : RowLength(bricks[i]) = GRID_WIDTH)
    => LET out == removeCompletedRowsFromGrid(bricks)
           k == completeRowCount(bricks)
       IN  /\ Len(out) = GRID_HEIGHT
           /\ \A i \in 1..k : isAllEmptyRow(out[i])
           /\ SubSeq(out, k + 1, Len(out)) = SelectSeq(bricks, isNotCompleteRow)
           /\ ~hasCompletedRow(out)
           /\ (k = 0) => (out = bricks)

\* The animation ended and removed two complete rows that had a partly
\* filled row between them and one above them.
C13_Witness ==
    /\ score = 200
    /\ ~isRowAnimating(completedRowAnimationFrame)
    /\ bricks[GRID_HEIGHT] = rowFilled(I, 0..7)
    /\ bricks[GRID_HEIGHT - 1] = rowFilled(L, 1..9)
    /\ isAllEmptyRow(bricks[GRID_HEIGHT - 2])

(* ---------------------------------------------------------------------- *)
(* C14: for every spawned brick other than O, in every orientation o, the  *)
(* shape rotate() tests for collision is the canonical shape rotated to    *)
(* o+1 mod 4, the shape shape() returns once the rotation is applied; so   *)
(* after a successful UP the brick overlaps no non-empty grid cell and has *)
(* no occupied cell outside columns 0..W-1 on an on-board row.             *)
(* ---------------------------------------------------------------------- *)
C14_RotateTestsNextShape ==
    /\ []((~isUnspawned(fallingBrick) /\ fallingBrick.type # O)
             => nextShape(fallingBrick) =
                  shape([fallingBrick EXCEPT
                            !.orientation = incrementOrientation(@)]))
    /\ [][(Up /\ fallingBrick' # fallingBrick)
             => /\ ~collision(bricks', shape(fallingBrick'),
                              fallingBrick'.x, fallingBrick'.y)
                /\ \A c \in brickCells(fallingBrick') :
                      c[2] \in Rows => c[1] \in Cols]_vars

(* ---------------------------------------------------------------------- *)
(* C15: UP on a spawned non-O brick takes the 5 offsets of the I table     *)
(* (type I) or of the shared table (L, J, S, Z, T) for the orientation     *)
(* rotated from, tries them in table order starting with (0,0), and        *)
(* applies the first one whose test reports no collision: orientation      *)
(* advances by one, x += dx, y += dy.  If all 5 collide, orientation, x    *)
(* and y are unchanged.  UP on an unspawned or O brick changes nothing.    *)
(* ---------------------------------------------------------------------- *)
kickTable(fb) ==
    IF fb.type = I THEN iOrientationToWallKickMap(fb.orientation)
    ELSE jlstzOrientationToWallKickMap(fb.orientation)

\* The test rotate() makes for the i-th offset reports no collision.
kickFree(fb, grid, i) ==
    ~collision(grid, nextShape(fb),
               fb.x + kickTable(fb)[i][1], fb.y + kickTable(fb)[i][2])

kicked(fb, i) ==
    [fb EXCEPT !.orientation = (fb.orientation + 1) % 4,
               !.x = fb.x + kickTable(fb)[i][1],
               !.y = fb.y + kickTable(fb)[i][2]]

C15_WallKickResolution ==
    [][Up =>
         /\ UNCHANGED <<phase, bricks, score, queue, completedRowAnimationFrame>>
         /\ IF isUnspawned(fallingBrick) \/ fallingBrick.type = O
            THEN fallingBrick' = fallingBrick
            ELSE /\ Len(kickTable(fallingBrick)) = 5
                 /\ kickTable(fallingBrick)[1] = <<0, 0>>
                 /\ \/ \E i \in 1..5 :
                          /\ kickFree(fallingBrick, bricks, i)
                          /\ \A j \in 1..(i - 1) :
                                ~kickFree(fallingBrick, bricks, j)
                          /\ fallingBrick' = kicked(fallingBrick, i)
                    \/ /\ \A i \in 1..5 : ~kickFree(fallingBrick, bricks, i)
                       /\ fallingBrick' = fallingBrick]_vars

\* The brick is where an UP resolved by the second or a later offset put it.
C15_Witness ==
    /\ run = "ok"
    /\ ~isUnspawned(fallingBrick)
    /\ fallingBrick.type # O
    /\ \E i \in 2..5 :
          \E dx \in -2..2, dy \in -2..2 :
             LET from == [fallingBrick EXCEPT
                             !.orientation = (fallingBrick.orientation + 3) % 4,
                             !.x = fallingBrick.x - dx,
                             !.y = fallingBrick.y - dy]
             IN  /\ kickTable(from)[i] = <<dx, dy>>
                 /\ kickFree(from, bricks, i)
                 /\ \A j \in 1..(i - 1) : ~kickFree(from, bricks, j)

(* ---------------------------------------------------------------------- *)
(* C16: LEFT / RIGHT in IN_PROGRESS is a no-op if the brick is unspawned,  *)
(* if an occupied cell of its shape is in the extreme column (0 for LEFT,  *)
(* W-1 for RIGHT), or if the shape shifted one column that way would       *)
(* overlap a non-empty grid cell; otherwise x changes by exactly 1 that    *)
(* way and y, orientation, type, grid, queue, score and phase are          *)
(* unchanged.                                                              *)
(* ---------------------------------------------------------------------- *)
sideStep(left) == IF left THEN -1 ELSE 1

sideBlocked(fb, grid, left) ==
    \/ isUnspawned(fb)
    \/ \E c \in brickCells(fb) : c[1] = (IF left THEN 0 ELSE GRID_WIDTH - 1)
    \/ \E c \in brickCells(fb) : isSettled(grid, c[1] + sideStep(left), c[2])

sideMoved(fb, grid, left) ==
    IF sideBlocked(fb, grid, left) THEN fb
    ELSE [fb EXCEPT !.x = fb.x + sideStep(left)]

C16_LeftRight ==
    /\ []((phase = IN_PROGRESS /\ run = "ok")
             => /\ moveLeft(fallingBrick, bricks) =
                      sideMoved(fallingBrick, bricks, TRUE)
                /\ moveRight(fallingBrick, bricks) =
                      sideMoved(fallingBrick, bricks, FALSE))
    /\ [][(phase = IN_PROGRESS /\ (Left \/ Right))
             => UNCHANGED <<phase, bricks, score, queue,
                            completedRowAnimationFrame>>]_vars

(* ---------------------------------------------------------------------- *)
(* C17: a TICK_CLOCK in IN_PROGRESS with no animation active first spawns  *)
(* an unspawned brick at x = floor((W - size) / 2), y = -size, orientation *)
(* SPAWN, and then, if the brick can fall, increases y by exactly 1 and    *)
(* changes nothing else.  The first TICK_CLOCK after START_GAME leaves the *)
(* brick at the centred x with y = 1 - size < 0.                           *)
(* ---------------------------------------------------------------------- *)
canonicalSize(type) == Len(brickTypeToShapeMap(type))

\* 2 * centredX(type) is W - size, or W - size - 1 when that is odd.
centredX(type) ==
    CHOOSE x \in 0..GRID_WIDTH :
        2 * x \in {GRID_WIDTH - canonicalSize(type),
                   GRID_WIDTH - canonicalSize(type) - 1}

spawnedBrick(fb) ==
    IF isUnspawned(fb)
    THEN [type |-> fb.type, x |-> centredX(fb.type),
          y |-> 0 - canonicalSize(fb.type), orientation |-> SPAWN]
    ELSE fb

C17_GravityStep ==
    [][/\ (/\ phase = IN_PROGRESS
           /\ ~isRowAnimating(completedRowAnimationFrame)
           /\ canFall(spawnedBrick(fallingBrick), bricks)
           /\ TickClock)
             => /\ fallingBrick' =
                      [spawnedBrick(fallingBrick) EXCEPT !.y = @ + 1]
                /\ UNCHANGED <<phase, bricks, score, queue,
                               completedRowAnimationFrame>>
       /\ (/\ phase = IN_PROGRESS
           /\ isUnspawned(fallingBrick)
           /\ isAllEmptyGrid(bricks)
           /\ ~isRowAnimating(completedRowAnimationFrame)
           /\ TickClock)
             => /\ fallingBrick'.x = centredX(fallingBrick.type)
                /\ fallingBrick'.y = 1 - canonicalSize(fallingBrick.type)
                /\ fallingBrick'.y < 0
                /\ fallingBrick'.orientation = SPAWN]_vars

\* The first TICK_CLOCK of a game spawned a T brick: size 3, so x = 3 (7 / 2
\* rounded down) and y = -2.
C17_Witness ==
    /\ phase = IN_PROGRESS
    /\ locks = 0
    /\ isAllEmptyGrid(bricks)
    /\ fallingBrick = [type |-> T, x |-> 3, y |-> -2, orientation |-> SPAWN]

(* ---------------------------------------------------------------------- *)
(* C18: a landing TICK_CLOCK that is not game over dequeues exactly once:  *)
(* the new falling brick is unspawned, has orientation SPAWN and the type  *)
(* that was at the front of the queue; the new queue is the old queue's    *)
(* second to fourth entries in the same order followed by one freshly      *)
(* drawn type; if the landing completes no row, no animation starts.  No   *)
(* other transition (but START_GAME) changes the queue or the falling      *)
(* brick's type.                                                           *)
(* ---------------------------------------------------------------------- *)
C18_DequeueOnLanding ==
    [][/\ (locksNow /\ run' # "thrown" /\ TickClock)
             => /\ isUnspawned(fallingBrick')
                /\ fallingBrick'.orientation = SPAWN
                /\ fallingBrick'.type = queue[1]
                /\ Len(queue') = 4
                /\ \A i \in 1..3 : queue'[i] = queue[i + 1]
                /\ queue'[4] \in BrickTypes
                /\ ~hasCompletedRow(bricks')
                      => ~isRowAnimating(completedRowAnimationFrame')
       /\ (queue' # queue \/ fallingBrick'.type # fallingBrick.type)
             => (StartGame \/ (locksNow /\ TickClock))]_vars

\* The L at the front of the queue L, J, O, S became the falling brick and
\* the queue moved up by one.
C18_Witness ==
    /\ run = "ok"
    /\ locks = 1
    /\ fallingBrick = newFallingBrick(L)
    /\ SubSeq(queue, 1, 3) = <<J, O, S>>
    /\ ~isRowAnimating(completedRowAnimationFrame)

(* ---------------------------------------------------------------------- *)
(* C19: in every reachable IN_PROGRESS state, DOWN applied twice yields    *)
(* the same brick (x, y, orientation) as DOWN applied once; after one DOWN *)
(* on a spawned brick the brick cannot fall: it is touching the floor or   *)
(* resting on a settled cell.  Stated for the DOWNs that return.           *)
(* ---------------------------------------------------------------------- *)
droppedOnce == fastFall(fallingBrick, bricks)

C19_HardDropIdempotent ==
    (/\ phase = IN_PROGRESS
     /\ run = "ok"
     /\ ~fastFallDiverges(fallingBrick, bricks))
    => /\ ~fastFallDiverges(droppedOnce, bricks)
       /\ fastFall(droppedOnce, bricks) = droppedOnce
       /\ ~isUnspawned(fallingBrick)
             => /\ ~canFall(droppedOnce, bricks)
                /\ \/ isTouchingFloor(droppedOnce)
                   \/ restsOnSettled(droppedOnce, bricks)

(* ---------------------------------------------------------------------- *)
(* C20: for a spawned non-O brick in a state where four consecutive UPs    *)
(* each succeed with the unkicked (0,0) offset, the four UPs return the    *)
(* brick to its original orientation, x, y and shape; every single UP that *)
(* succeeds advances the orientation by one step in the order SPAWN ->     *)
(* RIGHT -> TWO -> LEFT -> SPAWN.  For an O brick the effective shape is   *)
(* the canonical shape whatever orientation is stored.                     *)
(* ---------------------------------------------------------------------- *)
nextInCycle(o) ==
    CASE o = SPAWN -> RIGHT
      [] o = RIGHT -> TWO
      [] o = TWO   -> LEFT
      [] o = LEFT  -> SPAWN

\* UP on fb succeeds with the first offset, (0,0): only the orientation moves.
unkickedUp(fb, to) ==
    /\ to.orientation # fb.orientation
    /\ to.x = fb.x
    /\ to.y = fb.y

C20_RotationCyclic ==
    /\ [](LET r0 == fallingBrick
              r1 == rotate(r0, bricks)
              r2 == rotate(r1, bricks)
              r3 == rotate(r2, bricks)
              r4 == rotate(r3, bricks)
          IN  /\ (/\ ~isUnspawned(r0)
                  /\ r0.type # O
                  /\ unkickedUp(r0, r1) /\ unkickedUp(r1, r2)
                  /\ unkickedUp(r2, r3) /\ unkickedUp(r3, r4))
                    => /\ r1.orientation = nextInCycle(r0.orientation)
                       /\ r2.orientation = nextInCycle(r1.orientation)
                       /\ r3.orientation = nextInCycle(r2.orientation)
                       /\ r4 = r0
                       /\ shape(r4) = shape(r0)
                       /\ rotateShape(shape(r0), 4) = shape(r0)
              /\ (r0.type = O)
                    => \A o \in Orientations :
                          shape([r0 EXCEPT !.orientation = o]) =
                              brickTypeToShapeMap(O))
    /\ [][(Up /\ fallingBrick' # fallingBrick)
             => fallingBrick'.orientation =
                   nextInCycle(fallingBrick.orientation)]_vars

\* A T brick turned three times at its spawn position, where the fourth UP
\* succeeds unkicked too.
C20_Witness ==
    /\ run = "ok"
    /\ fallingBrick = [type |-> T, x |-> 3, y |-> -2, orientation |-> LEFT]
    /\ unkickedUp(fallingBrick, rotate(fallingBrick, bricks))

(* ---------------------------------------------------------------------- *)
(* C21: in every reachable state every occupied cell of a spawned falling  *)
(* brick has a column in 0..W-1 and a row below H: the brick may be above  *)
(* the board but never outside the side walls and never at or below the    *)
(* floor row H.                                                            *)
(* ---------------------------------------------------------------------- *)
C21_BrickInBounds ==
    ~isUnspawned(fallingBrick)
        => \A c \in brickCells(fallingBrick) :
              /\ c[1] \in Cols
              /\ c[2] < GRID_HEIGHT

(* ---------------------------------------------------------------------- *)
(* C22: in every reachable state with a spawned falling brick the fastFall *)
(* loop stops after at most H + 4 fall steps: canFall is false at some     *)
(* position at or below the current y within that distance; DOWN always    *)
(* returns.                                                                *)
(* ---------------------------------------------------------------------- *)
C22_HardDropTerminates ==
    /\ run \notin {"hung", "renderHung"}
    /\ ~isUnspawned(fallingBrick)
          => \E k \in 0..(GRID_HEIGHT + 4) :
                ~canFall([fallingBrick EXCEPT !.y = @ + k], bricks)

(* ---------------------------------------------------------------------- *)
(* C23: in an IN_PROGRESS game, under any interleaving of LEFT, RIGHT, UP  *)
(* and DOWN, if TICK_CLOCKs keep occurring the falling brick eventually    *)
(* lands on a TICK_CLOCK: whenever a spawned brick is in play, a later     *)
(* state has it locked and replaced by the unspawned queue front, or the   *)
(* phase OVER (or the game restarted, or the program stopped).             *)
(* ---------------------------------------------------------------------- *)
brickInPlay ==
    /\ run = "ok"
    /\ phase = IN_PROGRESS
    /\ ~isUnspawned(fallingBrick)

C23_BrickEventuallyLands == brickInPlay ~> ~brickInPlay

(* ---------------------------------------------------------------------- *)
(* C24: in every reachable state where completedRowAnimationFrame is       *)
(* present the falling brick is unspawned, so LEFT, RIGHT, UP and DOWN     *)
(* change nothing; a TICK_CLOCK that does not end the animation changes    *)
(* only the counter, by +1, and leaves grid, score, queue, phase and       *)
(* falling brick unchanged.  No brick is spawned, moved or locked until    *)
(* the animation has ended.                                                *)
(* ---------------------------------------------------------------------- *)
C24_FrozenDuringAnimation ==
    /\ [](isRowAnimating(completedRowAnimationFrame)
            => /\ isUnspawned(fallingBrick)
               /\ moveLeft(fallingBrick, bricks) = fallingBrick
               /\ moveRight(fallingBrick, bricks) = fallingBrick
               /\ rotate(fallingBrick, bricks) = fallingBrick
               /\ ~fastFallDiverges(fallingBrick, bricks)
               /\ fastFall(fallingBrick, bricks) = fallingBrick)
    /\ [][/\ (/\ isRowAnimating(completedRowAnimationFrame)
               /\ isRowAnimating(completedRowAnimationFrame'))
                 => /\ completedRowAnimationFrame' =
                          completedRowAnimationFrame + 1
                    /\ TickClock
                    /\ UNCHANGED <<phase, bricks, score, queue, fallingBrick>>
          /\ (isRowAnimating(completedRowAnimationFrame)
                 /\ (Left \/ Right \/ Up \/ Down))
                 => UNCHANGED state]_vars

\* Half way through the animation of one completed row.
C24_Witness ==
    /\ run = "ok"
    /\ completedRowAnimationFrame = 3
    /\ score = 100
    /\ hasCompletedRow(bricks)
    /\ isUnspawned(fallingBrick)

====
